---- MODULE Spec2Model ----
(***************************************************************************)
(* A model of the RESP key-value server of src/src/main.rs and             *)
(* src/src/resp.rs: the codec (parse_message, serialize), the command      *)
(* translator (extract_command, to_command), the store (GLOBAL_HASHMAP     *)
(* behind one Mutex, handle_command) and the per-connection session loop   *)
(* (handle_connection), one tokio task per accepted connection.            *)
(*                                                                         *)
(* A byte is a one-character string; the bytes of a multi-byte UTF-8       *)
(* character and a byte that is never valid UTF-8 are named "0xC3",        *)
(* "0xA9", "0xFF".  A Rust String is the sequence of its UTF-8 bytes.      *)
(***************************************************************************)
EXTENDS Integers, Sequences, FiniteSets, TLC

\* ------------------------------------------------------------------ bounds
\* The clock (milliseconds) stops advancing at MaxTime.
MaxTime == 3

\* ------------------------------------------------------------ option type
None == <<>>
Some(x) == <<x>>

Min(S) == CHOOSE x \in S : \A y \in S : x <= y

\* --------------------------------------------------------------- RedisValue
SimpleString(s) == [t |-> "SimpleString", s |-> s]
Integer(i) == [t |-> "Integer", i |-> i]
BulkString(s) == [t |-> "BulkString", s |-> s]
Array(a) == [t |-> "Array", a |-> a]

\* Result<_, anyhow::Error>, with a panic as a third outcome.
Ok(v) == [k |-> "Ok", v |-> v]
OkN(v, n) == [k |-> "Ok", v |-> v, n |-> n]
Err == [k |-> "Err"]
Panic == [k |-> "Panic"]

\* ------------------------------------------------------------------- bytes
CR == "\r"
LF == "\n"
CRLF == <<CR, LF>>

\* UTF-8: a two-byte character is a lead byte followed by a continuation
\* byte; every other byte named here is ASCII, except 0xFF.
Utf8Lead2 == {"0xC3"}
Utf8Cont == {"0xA9"}
Utf8Never == {"0xFF"}

RECURSIVE IsUtf8(_)
IsUtf8(b) ==
    IF b = <<>> THEN TRUE
    ELSE IF b[1] \in Utf8Lead2
         THEN Len(b) >= 2 /\ b[2] \in Utf8Cont /\ IsUtf8(SubSeq(b, 3, Len(b)))
    ELSE IF b[1] \in Utf8Cont \cup Utf8Never THEN FALSE
    ELSE IsUtf8(Tail(b))

\* s.chars().count(): every byte but a continuation byte starts a character.
CharsCount(s) == Cardinality({i \in 1..Len(s) : s[i] \notin Utf8Cont})

DigitVal ==
    [c \in {"0", "1", "2", "3", "4", "5", "6", "7", "8", "9"} |->
        CASE c = "0" -> 0 [] c = "1" -> 1 [] c = "2" -> 2 [] c = "3" -> 3
          [] c = "4" -> 4 [] c = "5" -> 5 [] c = "6" -> 6 [] c = "7" -> 7
          [] c = "8" -> 8 [] c = "9" -> 9]
Digits == DOMAIN DigitVal
DigitChar == [d \in 0..9 |-> CHOOSE c \in Digits : DigitVal[c] = d]

\* format!("{}", n) for n >= 0
RECURSIVE ToDecimal(_)
ToDecimal(n) ==
    IF n < 10 THEN <<DigitChar[n]>>
    ELSE Append(ToDecimal(n \div 10), DigitChar[n % 10])

UpperLetters ==
    <<"A", "B", "C", "D", "E", "F", "G", "H", "I", "J", "K", "L", "M",
      "N", "O", "P", "Q", "R", "S", "T", "U", "V", "W", "X", "Y", "Z">>
LowerLetters ==
    <<"a", "b", "c", "d", "e", "f", "g", "h", "i", "j", "k", "l", "m",
      "n", "o", "p", "q", "r", "s", "t", "u", "v", "w", "x", "y", "z">>
LowerOf(c) ==
    IF \E i \in 1..26 : UpperLetters[i] = c
    THEN LowerLetters[CHOOSE i \in 1..26 : UpperLetters[i] = c]
    ELSE c
\* str::to_lowercase, on ASCII text
ToLowercase(s) == [i \in 1..Len(s) |-> LowerOf(s[i])]

\* -------------------------------------------------------- integer parsing
\* A u64 is the sequence of its decimal digits without leading zeros, an
\* i64 is its sign and the digits of its magnitude: 64-bit values are
\* beyond the integers the model checker computes with.
RECURSIVE DecValue(_)
DecValue(ds) ==
    IF ds = <<>> THEN 0
    ELSE 10 * DecValue(SubSeq(ds, 1, Len(ds) - 1)) + DigitVal[ds[Len(ds)]]

RECURSIVE StripZeros(_)
StripZeros(ds) ==
    IF Len(ds) > 1 /\ ds[1] = "0" THEN StripZeros(Tail(ds)) ELSE ds

RECURSIVE LexLeq(_, _)
LexLeq(a, b) ==
    IF a = <<>> THEN TRUE
    ELSE IF DigitVal[a[1]] # DigitVal[b[1]] THEN DigitVal[a[1]] < DigitVal[b[1]]
    ELSE LexLeq(Tail(a), Tail(b))

FitsBelow(ds, max) ==
    LET d == StripZeros(ds)
    IN  Len(d) < Len(max) \/ (Len(d) = Len(max) /\ LexLeq(d, max))

AllDigits(ds) == \A i \in 1..Len(ds) : ds[i] \in Digits

I64MaxDigits == <<"9","2","2","3","3","7","2","0","3","6","8","5","4","7","7","5","8","0","7">>
I64MinDigits == <<"9","2","2","3","3","7","2","0","3","6","8","5","4","7","7","5","8","0","8">>
U64MaxDigits == <<"1","8","4","4","6","7","4","4","0","7","3","7","0","9","5","5","1","6","1","5">>
\* 2^64
TwoTo64Digits == <<"1","8","4","4","6","7","4","4","0","7","3","7","0","9","5","5","1","6","1","6">>

I64Of(neg, ds) == [neg |-> neg /\ StripZeros(ds) # <<"0">>, mag |-> StripZeros(ds)]
\* the i64 of a small integer n
I64(n) == I64Of(n < 0, ToDecimal(IF n < 0 THEN 0 - n ELSE n))
I64Min == I64Of(TRUE, I64MinDigits)
Negative(x) == x.neg
\* of at most nine digits: a value the model can count with
Small(x) == Len(x.mag) <= 9
IntOf(x) == IF x.neg THEN 0 - DecValue(x.mag) ELSE DecValue(x.mag)

\* a - b on digit strings of one length, a >= b
RECURSIVE DecSub(_, _, _)
DecSub(a, b, borrow) ==
    IF a = <<>> THEN <<>>
    ELSE LET n == Len(a)
             d == DigitVal[a[n]] - DigitVal[b[n]] - borrow
         IN  Append(DecSub(SubSeq(a, 1, n - 1), SubSeq(b, 1, n - 1),
                           IF d < 0 THEN 1 ELSE 0),
                    DigitChar[IF d < 0 THEN d + 10 ELSE d])
PadZeros(ds, n) == [i \in 1..n |-> IF i <= n - Len(ds) THEN "0" ELSE ds[i - (n - Len(ds))]]

\* `u as i64`: a u64 of 2^63 or more becomes u - 2^64
AsI64(u) ==
    IF FitsBelow(u, I64MaxDigits) THEN I64Of(FALSE, u)
    ELSE I64Of(TRUE, DecSub(TwoTo64Digits, PadZeros(u, 20), 0))

\* sign * x in i64.  -1 * i64::MIN does not fit: the multiplication panics
\* in a build with overflow checks and wraps to i64::MIN in one without.
Overflow(wrapped) == [k |-> "Overflow", v |-> wrapped]
MulSign(sign, x) ==
    IF sign = 1 THEN Ok(x)
    ELSE IF x = I64Min THEN Overflow(I64Min)
    ELSE Ok(I64Of(~x.neg, x.mag))
\* what a result is in each build
Builds(r) == IF r.k = "Overflow" THEN {Panic, Ok(r.v)} ELSE {r}

\* str::parse::<i64>(): an optional '+' or '-', then one or more digits,
\* an error when the value does not fit.
ParseI64(line) ==
    IF ~IsUtf8(line) \/ line = <<>> THEN Err
    ELSE LET signed == line[1] \in {"+", "-"}
             ds == IF signed THEN Tail(line) ELSE line
         IN  IF ds = <<>> \/ ~AllDigits(ds) THEN Err
             ELSE IF line[1] = "-"
                  THEN IF FitsBelow(ds, I64MinDigits) THEN Ok(I64Of(TRUE, ds)) ELSE Err
                  ELSE IF FitsBelow(ds, I64MaxDigits) THEN Ok(I64Of(FALSE, ds)) ELSE Err

\* str::parse::<u64>(): an optional '+' (never '-'), then one or more digits.
ParseU64(line) ==
    IF ~IsUtf8(line) \/ line = <<>> THEN Err
    ELSE LET ds == IF line[1] = "+" THEN Tail(line) ELSE line
         IN  IF ds = <<>> \/ ~AllDigits(ds) THEN Err
             ELSE IF FitsBelow(ds, U64MaxDigits) THEN Ok(StripZeros(ds)) ELSE Err

parse_int(buffer) == ParseI64(buffer)

\* The sign is taken off first and the rest goes through the u64 parser.
parse_int_with_sign(line) ==
    IF line = <<>> THEN Err
    ELSE LET sign == IF line[1] = "-" THEN 0 - 1 ELSE 1
             rest == IF line[1] \in {"+", "-"} THEN Tail(line) ELSE line
             u == ParseU64(rest)
         IN  IF u.k # "Ok" THEN Err ELSE MulSign(sign, AsI64(u.v))

\* ------------------------------------------------------------------- codec
read_until_crlf(buffer) ==
    LET hits == {j \in 2..Len(buffer) : buffer[j - 1] = CR /\ buffer[j] = LF}
    IN  IF hits = {} THEN None
        ELSE Some([line |-> SubSeq(buffer, 1, Min(hits) - 2), len |-> Min(hits)])

parse_simple_string(buffer) ==
    LET r == read_until_crlf(Tail(buffer))
    IN  IF r = None THEN Err
        ELSE IF ~IsUtf8(r[1].line) THEN Panic
        ELSE OkN(SimpleString(r[1].line), r[1].len + 1)

parse_bulk_string(buffer) ==
    LET r == read_until_crlf(Tail(buffer))
    IN  IF r = None THEN Err
        ELSE LET n == parse_int(r[1].line)
                 bytes_consumed == r[1].len + 1
             IN  IF n.k # "Ok" THEN Err
                 \* a negative length as usize: the addition overflows or the
                 \* slice bounds are out of order, a panic either way
                 ELSE IF Negative(n.v) THEN Panic
                 \* the slice ends past the buffer
                 ELSE IF ~Small(n.v) THEN Panic
                 ELSE IF bytes_consumed + IntOf(n.v) > Len(buffer) THEN Panic
                 ELSE LET end_of_bulk_str == bytes_consumed + IntOf(n.v)
                          payload == SubSeq(buffer, bytes_consumed + 1, end_of_bulk_str)
                      IN  IF ~IsUtf8(payload) THEN Err
                          ELSE OkN(BulkString(payload), end_of_bulk_str + 2)

RECURSIVE parse_message(_)
RECURSIVE ParseItems(_, _, _, _)

\* the loop of parse_array: `count` items still to parse
ParseItems(buffer, count, bytes_consumed, items) ==
    IF count <= 0 THEN OkN(Array(items), bytes_consumed)
    ELSE IF bytes_consumed > Len(buffer) THEN Panic
    ELSE LET r == parse_message(SubSeq(buffer, bytes_consumed + 1, Len(buffer)))
         IN  IF r.k # "Ok" THEN r
             ELSE ParseItems(buffer, count - 1, bytes_consumed + r.n, Append(items, r.v))

\* `0..array_length`: no item for a negative count; every item takes bytes,
\* so a count above the length of the buffer ends as that length plus one does
Iterations(n, buffer) ==
    IF Negative(n) THEN 0
    ELSE IF ~Small(n) THEN Len(buffer) + 1
    ELSE IF IntOf(n) > Len(buffer) THEN Len(buffer) + 1
    ELSE IntOf(n)

parse_array(buffer) ==
    LET r == read_until_crlf(Tail(buffer))
    IN  IF r = None THEN Err
        ELSE LET n == parse_int(r[1].line)
             IN  IF n.k # "Ok" THEN Err
                 ELSE ParseItems(buffer, Iterations(n.v, buffer), r[1].len + 1, <<>>)

parse_message(buffer) ==
    IF buffer = <<>> THEN Panic
    ELSE CASE buffer[1] = "+" -> parse_simple_string(buffer)
           [] buffer[1] = "*" -> parse_array(buffer)
           [] buffer[1] = "$" -> parse_bulk_string(buffer)
           [] OTHER -> Err

serialize(v) ==
    CASE v.t = "SimpleString" -> Ok(<<"+">> \o v.s \o CRLF)
      [] v.t = "BulkString" ->
            IF v.s = <<"-", "1">> THEN Ok(<<"$", "-", "1">> \o CRLF)
            ELSE Ok(<<"$">> \o ToDecimal(CharsCount(v.s)) \o CRLF \o v.s \o CRLF)
      [] OTHER -> Panic

\* ------------------------------------------------------ command translator
Echo(arg) == [c |-> "Echo", arg |-> arg]
Ping == [c |-> "Ping"]
Set(key, value) == [c |-> "Set", key |-> key, value |-> value]
SetTimeout(key, value, timeout) ==
    [c |-> "SetTimeout", key |-> key, value |-> value, timeout |-> timeout]
Get(key) == [c |-> "Get", key |-> key]
Info(arg) == [c |-> "Info", arg |-> arg]
NoCommand == [c |-> "None"]

unpack_bulk_str(value) ==
    IF value.t = "BulkString" THEN Ok(value.s) ELSE Err

extract_command(value) ==
    IF value.t = "Array"
    THEN IF value.a = <<>> THEN Panic
         ELSE LET name == unpack_bulk_str(value.a[1])
              IN  IF name.k # "Ok" THEN Err
                  ELSE Ok([command |-> name.v, args |-> Tail(value.a)])
    ELSE Err

\* the "set" arm of to_command
to_command_set(args) ==
    IF Len(args) < 2 THEN Err
    ELSE IF Len(args) = 4
    THEN IF args[3].t = "BulkString"
         THEN IF ToLowercase(args[3].s) = <<"p", "x">>
              THEN IF args[4].t = "BulkString"
                   THEN LET n == parse_int_with_sign(args[4].s)
                        IN  IF n.k = "Err" THEN Panic
                            ELSE IF n.k = "Overflow"
                            THEN Overflow(SetTimeout(args[1], args[2], Integer(n.v)))
                            ELSE Ok(SetTimeout(args[1], args[2], Integer(n.v)))
                   ELSE Ok(SetTimeout(args[1], args[2], Integer(I64(1000))))
              ELSE Err
         ELSE Panic
    ELSE Ok(Set(args[1], args[2]))

to_command(command, args) ==
    LET name == ToLowercase(command)
    IN  CASE name = <<"e", "c", "h", "o">> ->
                IF args = <<>> THEN Panic ELSE Ok(Echo(args[1]))
          [] name = <<"s", "e", "t">> -> to_command_set(args)
          [] name = <<"g", "e", "t">> ->
                IF Len(args) < 1 THEN Err ELSE Ok(Get(args[1]))
          [] name = <<"p", "i", "n", "g">> -> Ok(Ping)
          [] name = <<"i", "n", "f", "o">> ->
                IF Len(args) < 1 THEN Err ELSE Ok(Info(args[1]))
          [] OTHER -> Err

\* ------------------------------------------------------------------ replies
PONG == SimpleString(<<"P", "O", "N", "G">>)
OK == SimpleString(<<"O", "K">>)
\* what GET answers for a key that is not in the map
NeverSetReply == SimpleString(<<"-", "1">>)
\* what get returns for an entry whose timeout has passed
ExpiredValue == BulkString(<<"-", "1">>)
RoleMaster == BulkString(<<"r", "o", "l", "e", ":", "m", "a", "s", "t", "e", "r">>)

\* the Info arm of handle_command
handle_command_info(info_command) ==
    IF info_command.t = "BulkString"
       /\ ToLowercase(info_command.s) = <<"r", "e", "p", "l", "i", "c", "a", "t", "i", "o", "n">>
    THEN Ok(Some(RoleMaster))
    ELSE Panic

\* ------------------------------------------------------------------- store
\* an insert that leaves an existing key as it is (entry().or_insert)
HashMapInsert_keep(h, key, entry) ==
    [x \in (DOMAIN h) \cup {key} |-> IF x \in DOMAIN h THEN h[x] ELSE entry]

\* HashMap::insert
HashMapInsert(h, key, entry) ==
    [x \in (DOMAIN h) \cup {key} |-> IF x = key THEN entry ELSE h[x]]

Entry(value, exp) == [value |-> value, exp |-> exp]
Expiry(timeout, inserted_at) == [timeout |-> timeout, inserted_at |-> inserted_at]

\* the comparison with >= for >
TimedOut_ge(elapsed, timeout) ==
    IF Negative(timeout) \/ ~Small(timeout) THEN FALSE ELSE elapsed >= IntOf(timeout)

\* `elapsed > *timeout as u128`: a negative timeout sign-extends to a value
\* above 2^127, which no elapsed time exceeds; nor does the elapsed time of
\* a run exceed a timeout of ten digits or more.
TimedOut(elapsed, timeout) ==
    IF Negative(timeout) \/ ~Small(timeout) THEN FALSE ELSE elapsed > IntOf(timeout)

\* a Get arm that takes an entry without expiry for an expired one
handle_command_get_noexp(h, key, t) ==
    IF key \in DOMAIN h
    THEN IF h[key].exp = None THEN Ok(Some(ExpiredValue))
         ELSE LET e == h[key].exp[1]
              IN  IF TimedOut(t - e.inserted_at, e.timeout.i)
                  THEN Ok(Some(ExpiredValue))
                  ELSE Ok(Some(h[key].value))
    ELSE Ok(None)

\* the Get arm of handle_command, on the locked map at time t
handle_command_get(h, key, t) ==
    IF key \in DOMAIN h
    THEN IF h[key].exp = None THEN Ok(Some(h[key].value))
         ELSE LET e == h[key].exp[1]
              IN  IF e.timeout.t # "Integer" THEN Panic
                  ELSE IF t < e.inserted_at THEN Panic
                  ELSE IF TimedOut(t - e.inserted_at, e.timeout.i)
                       THEN Ok(Some(ExpiredValue))
                       ELSE Ok(Some(h[key].value))
    ELSE Ok(None)

\* ----------------------------------------------------------------- session
\* One pass of the loop of handle_connection from the read up to the first
\* suspension point after it: read_value, extract_command, to_command and
\* the arms that do not touch the map.  `bytes` is what the read returned.
Closed(how) == [next |-> "closed", exit |-> how, cmd |-> NoCommand, response |-> None]
Reply(v) == [next |-> "write", exit |-> "none", cmd |-> NoCommand, response |-> Some(v)]
ToStore(command) == [next |-> "lock", exit |-> "none", cmd |-> command, response |-> None]

Dispatch(command) ==
    CASE command.c = "Echo" -> Reply(command.arg)
      [] command.c = "Ping" -> Reply(PONG)
      [] command.c = "Info" ->
            LET r == handle_command_info(command.arg)
            IN  IF r.k = "Ok" THEN Reply(r.v[1]) ELSE Closed("panic")
      [] OTHER -> ToStore(command)

\* the outcomes of a read, one per build where the builds differ
handle_read(bytes) ==
    IF bytes = <<>> THEN {Closed("eof")}
    ELSE LET v == parse_message(bytes)
         IN  IF v.k = "Err" THEN {Closed("err")}
             ELSE IF v.k = "Panic" THEN {Closed("panic")}
             ELSE LET x == extract_command(v.v)
                  IN  IF x.k = "Err" THEN {Closed("err")}
                      ELSE IF x.k = "Panic" THEN {Closed("panic")}
                      ELSE { IF c.k = "Ok" THEN Dispatch(c.v) ELSE Closed("panic") :
                                c \in Builds(to_command(x.v.command, x.v.args)) }

\* ---------------------------------------------------------------- requests
\* What a client puts on the wire: a request is an Array of BulkStrings,
\* each BulkString prefixed with its length in bytes.
RECURSIVE Flatten(_)
Flatten(ss) == IF ss = <<>> THEN <<>> ELSE ss[1] \o Flatten(Tail(ss))

WireBulk(text) == <<"$">> \o ToDecimal(Len(text)) \o CRLF \o text \o CRLF
Request(words) ==
    <<"*">> \o ToDecimal(Len(words)) \o CRLF
        \o Flatten([i \in 1..Len(words) |-> WireBulk(words[i])])

k == <<"k">>
j == <<"j">>
v == <<"v">>
w == <<"w">>
Minus1 == <<"-", "1">>
EAcute == <<"0xC3", "0xA9">>
W_PING == <<"P", "I", "N", "G">>
W_ECHO == <<"E", "C", "H", "O">>
W_SET == <<"S", "E", "T">>
W_GET == <<"G", "E", "T">>
W_INFO == <<"I", "N", "F", "O">>
W_PX == <<"P", "X">>
W_replication == <<"r", "e", "p", "l", "i", "c", "a", "t", "i", "o", "n">>

Bk == BulkString(k)
Bj == BulkString(j)
Bv == BulkString(v)
Bw == BulkString(w)

EchoTexts == {<<"h", "e", "y">>, EAcute, Minus1}

\* requests the translator accepts
PingRequest == Request(<<W_PING>>)
EchoRequest(m) == Request(<<W_ECHO, m>>)
SetRequests ==
    { Request(<<W_SET, k, v>>),
      Request(<<W_SET, k, w>>),
      Request(<<W_SET, j, Minus1>>),
      Request(<<W_SET, k, v, W_PX, <<"1">>>>),
      Request(<<<<"s", "e", "t">>, k, w, <<"p", "X">>, <<"-", "1">>>>) }
GetRequests == { Request(<<W_GET, k>>), Request(<<<<"g", "e", "t">>, j>>) }
InfoReplicationRequests ==
    { Request(<<W_INFO, W_replication>>),
      Request(<<<<"i", "n", "f", "o">>,
                <<"R", "E", "P", "L", "I", "C", "A", "T", "I", "O", "N">>>>) }
InfoOtherRequests == { Request(<<W_INFO, <<"s", "e", "r", "v", "e", "r">>>>) }

\* requests that parse and are invalid at the request level
ArityRequests ==
    { Request(<<W_ECHO>>), Request(<<W_GET>>), Request(<<W_SET, k>>), Request(<<W_INFO>>) }
UnsupportedOptionRequests == { Request(<<W_SET, k, v, <<"E", "X">>, <<"1">>>>) }
UnknownCommandRequests == { Request(<<<<"F", "O", "O">>>>) }
BadTtlRequests == { Request(<<W_SET, k, v, W_PX, <<"a", "b", "c">>>>) }
InvalidRequests ==
    ArityRequests \cup UnsupportedOptionRequests \cup UnknownCommandRequests
        \cup BadTtlRequests

\* two complete requests arriving in one read
PipelinedReads == { PingRequest \o PingRequest }

\* bytes that are not a well-formed RESP value
MissingCrlfRead == <<"*", "1">> \o CRLF \o <<"$", "4">> \o CRLF \o W_PING \o <<"x", "x">>
MalformedReads ==
    { MissingCrlfRead,
      <<"!", "x">> \o CRLF,
      <<"*", "2">> \o CRLF \o WireBulk(W_ECHO),
      <<"+", "O", "K">> }
\* a well-formed value that is not a request
NotARequestReads ==
    { <<"+", "O", "K">> \o CRLF,
      <<"*", "0">> \o CRLF,
      <<"$", "1">> \o CRLF \o <<"0xFF">> \o CRLF }

\* requests with an argument that is no BulkString: ECHO of an Array and
\* of a SimpleString
EchoArrayRequest ==
    <<"*", "2">> \o CRLF \o WireBulk(W_ECHO) \o Request(<<k>>)
EchoSimpleRequest ==
    <<"*", "2">> \o CRLF \o WireBulk(W_ECHO) \o <<"+", "h", "i">> \o CRLF
NonBulkArgRequests == { EchoArrayRequest, EchoSimpleRequest }

Reads ==
    {<<>>, PingRequest} \cup {EchoRequest(m) : m \in EchoTexts}
        \cup SetRequests \cup GetRequests
        \cup InfoReplicationRequests \cup InfoOtherRequests
        \cup InvalidRequests \cup PipelinedReads
        \cup MalformedReads \cup NotARequestReads
        \cup NonBulkArgRequests

\* The RESP grammar: the length of the well-formed value a buffer starts
\* with, 0 when it starts with none.
RECURSIVE FrameLen(_)
RECURSIVE FramesLen(_, _)
FramesLen(buffer, count) ==
    IF count = 0 THEN 0
    ELSE LET n == FrameLen(buffer)
         IN  IF n = 0 THEN 0 - 1
             ELSE LET m == FramesLen(SubSeq(buffer, n + 1, Len(buffer)), count - 1)
                  IN  IF m < 0 THEN m ELSE n + m
FrameLen(buffer) ==
    IF buffer = <<>> \/ buffer[1] \notin {"+", ":", "$", "*"} THEN 0
    ELSE LET r == read_until_crlf(Tail(buffer))
         IN  IF r = None THEN 0
             ELSE LET line == r[1].line
                      head == r[1].len + 1
                  IN  CASE buffer[1] = "+" ->
                              IF IsUtf8(line) /\ CR \notin {line[i] : i \in 1..Len(line)}
                              THEN head ELSE 0
                        [] buffer[1] = ":" ->
                              IF ParseI64(line).k = "Ok" THEN head ELSE 0
                        [] buffer[1] = "$" ->
                              IF line = Minus1 THEN head
                              ELSE IF ~AllDigits(line) \/ line = <<>> THEN 0
                              \* more than any buffer here holds
                              ELSE IF Len(StripZeros(line)) > 9 THEN 0
                              ELSE IF Len(buffer) < head + DecValue(line) + 2 THEN 0
                              ELSE IF SubSeq(buffer, head + DecValue(line) + 1,
                                             head + DecValue(line) + 2) # CRLF THEN 0
                              ELSE head + DecValue(line) + 2
                        [] buffer[1] = "*" ->
                              IF line = Minus1 THEN head
                              ELSE IF ~AllDigits(line) \/ line = <<>> THEN 0
                              \* more than any buffer here holds
                              ELSE IF Len(StripZeros(line)) > 9 THEN 0
                              ELSE LET m == FramesLen(SubSeq(buffer, head + 1, Len(buffer)),
                                                      DecValue(line))
                                   IN  IF m < 0 THEN 0 ELSE head + m

WellFormed(buffer) == FrameLen(buffer) > 0

\* how many complete values a read delivers, one after the other
RECURSIVE CompleteFrames(_)
CompleteFrames(buffer) ==
    IF FrameLen(buffer) = 0 THEN 0
    ELSE 1 + CompleteFrames(SubSeq(buffer, FrameLen(buffer) + 1, Len(buffer)))

\* ------------------------------------------------------------------- state
\* The connections the acceptor has a task for.
Sessions == {"s1", "s2"}

VARIABLES
    store,      \* GLOBAL_HASHMAP: key -> (value, Option<(timeout, inserted_at)>)
    guard,      \* the session holding the MutexGuard of GLOBAL_HASHMAP, if any
    poisoned,   \* the Mutex is poisoned: a holder of its guard panicked
    now,        \* SystemTime::now(), in milliseconds
    pc,         \* where each session's task is: "closed" (no task), "read",
                \* "lock", "access", "insert", "write"
    cmd,        \* the command a session has passed to handle_command
    response,   \* the reply a session is about to write
    wire,       \* the bytes a session has written since its last read
    exit,       \* how a session's last task ended: "none", "eof", "err", "panic"
    pending,    \* complete values of a session's last read not yet replied to
    request,    \* the bytes of the read a session is serving or ended on
    seen,       \* what a session's GET met: the key, the last completed SET
                \* of that key, the time and what handle_command returned
    replaced,   \* what a session's SET found under its key and replaced
    lastWrite   \* per key, the entry of the SET that completed last

\* A function of the codec or of the translator called on its own:
VARIABLES
    call,       \* the function and its argument, None when the server runs
    ret         \* what the calls made so far returned, in order

server == <<store, guard, poisoned, now, pc, cmd, response, wire, exit, pending,
            request, seen, replaced, lastWrite>>
vars == <<store, guard, poisoned, now, pc, cmd, response, wire, exit, pending,
          request, seen, replaced, lastWrite, call, ret>>

EmptyMap == [x \in {} |-> None]

\* the process at its start: the map is empty and no connection is accepted
Boot ==
    /\ store = EmptyMap
    /\ guard = None
    /\ poisoned = FALSE
    /\ now = 0
    /\ pc = [s \in Sessions |-> "closed"]
    /\ cmd = [s \in Sessions |-> NoCommand]
    /\ response = [s \in Sessions |-> None]
    /\ wire = [s \in Sessions |-> <<>>]
    /\ exit = [s \in Sessions |-> "none"]
    /\ pending = [s \in Sessions |-> 0]
    /\ request = [s \in Sessions |-> None]
    /\ seen = [s \in Sessions |-> None]
    /\ replaced = [s \in Sessions |-> None]
    /\ lastWrite = EmptyMap

Init ==
    /\ Boot
    /\ call = None
    /\ ret = <<>>

\* What every read of the catalogue leads to, and how many complete values
\* it delivers; worked out once.
Catalogue ==
    { [bytes |-> b, outcomes |-> handle_read(b), frames |-> CompleteFrames(b)] :
        b \in Reads }
ReadOutcomes(bytes) == (CHOOSE r \in Catalogue : r.bytes = bytes).outcomes
FramesRead(bytes) == (CHOOSE r \in Catalogue : r.bytes = bytes).frames

\* a panic that takes the process down, every task with it (panic = "abort")
TaskEnds_abort(s) == [o \in Sessions |-> "closed"]

\* A task that returns or panics ends alone: tokio::spawn contains the panic
\* and the stream is dropped with the task.
TaskEnds(s) == [pc EXCEPT ![s] = "closed"]

\* main: accept a connection and spawn handle_connection for it
Accept(s) ==
    /\ pc[s] = "closed"
    /\ pc' = [pc EXCEPT ![s] = "read"]
    /\ exit' = [exit EXCEPT ![s] = "none"]
    /\ pending' = [pending EXCEPT ![s] = 0]
    /\ request' = [request EXCEPT ![s] = None]
    /\ UNCHANGED <<store, guard, poisoned, now, cmd, response, wire, seen,
                   replaced, lastWrite>>
    /\ UNCHANGED <<call, ret>>

\* handle_connection from read_value to the next suspension point
ReadValue(s, bytes) ==
    /\ pc[s] = "read"
    /\ \E o \in ReadOutcomes(bytes) :
           /\ pc' = IF o.next = "closed" THEN TaskEnds(s)
                    ELSE [pc EXCEPT ![s] = o.next]
           /\ exit' = [exit EXCEPT ![s] = o.exit]
           /\ cmd' = [cmd EXCEPT ![s] = o.cmd]
           /\ response' = [response EXCEPT ![s] = o.response]
    /\ wire' = [wire EXCEPT ![s] = <<>>]
    /\ pending' = [pending EXCEPT ![s] = FramesRead(bytes)]
    /\ request' = [request EXCEPT ![s] = Some(bytes)]
    /\ UNCHANGED <<store, guard, poisoned, now, seen, replaced, lastWrite>>
    /\ UNCHANGED <<call, ret>>

\* a lock that is granted while another session holds the guard
Lock_unguarded(s) ==
    /\ pc[s] = "lock"
    /\ IF poisoned
       THEN /\ pc' = TaskEnds(s)
            /\ exit' = [exit EXCEPT ![s] = "panic"]
            /\ cmd' = [cmd EXCEPT ![s] = NoCommand]
            /\ UNCHANGED guard
       ELSE /\ pc' = [pc EXCEPT ![s] = "access"]
            /\ guard' = Some(s)
            /\ UNCHANGED <<exit, cmd>>
    /\ UNCHANGED <<store, poisoned, now, response, wire, pending, request, seen,
                   replaced, lastWrite>>
    /\ UNCHANGED <<call, ret>>

\* GLOBAL_HASHMAP.lock().unwrap()
Lock(s) ==
    /\ pc[s] = "lock"
    /\ guard = None
    /\ IF poisoned
       THEN /\ pc' = TaskEnds(s)
            /\ exit' = [exit EXCEPT ![s] = "panic"]
            /\ cmd' = [cmd EXCEPT ![s] = NoCommand]
            /\ UNCHANGED guard
       ELSE /\ pc' = [pc EXCEPT ![s] = "access"]
            /\ guard' = Some(s)
            /\ UNCHANGED <<exit, cmd>>
    /\ UNCHANGED <<store, poisoned, now, response, wire, pending, request, seen,
                   replaced, lastWrite>>
    /\ UNCHANGED <<call, ret>>

\* The entry a Set or SetTimeout command inserts at time t.
NewEntry(c, t) ==
    IF c.c = "Set" THEN Entry(c.value, None)
    ELSE Entry(c.value, Some(Expiry(c.timeout, t)))

\* the history kept of the SETs: what was written under a key
Recorded(h, key, entry) == (key :> entry) @@ h

\* hashmap.insert writes the tuple in two parts; this is the first, the value
InsertValue(s) ==
    /\ pc[s] = "access"
    /\ cmd[s].c \in {"Set", "SetTimeout"}
    /\ store' = HashMapInsert(store, cmd[s].key,
                    Entry(cmd[s].value,
                          IF cmd[s].key \in DOMAIN store
                          THEN store[cmd[s].key].exp ELSE None))
    /\ pc' = [pc EXCEPT ![s] = "insert"]
    /\ UNCHANGED <<guard, poisoned, now, cmd, response, wire, exit, pending,
                   request, seen, replaced, lastWrite>>
    /\ UNCHANGED <<call, ret>>

\* an insert whose guard outlives handle_command, held across the reply
InsertExpiry_held(s) ==
    /\ pc[s] = "insert"
    /\ store' = HashMapInsert(store, cmd[s].key,
                    Entry(store[cmd[s].key].value, NewEntry(cmd[s], now).exp))
    /\ lastWrite' = Recorded(lastWrite, cmd[s].key,
                             [value |-> cmd[s].value,
                              exp |-> IF cmd[s].c = "SetTimeout"
                                      THEN Some([timeout |-> cmd[s].timeout,
                                                 inserted_at |-> now])
                                      ELSE None])
    /\ replaced' = [replaced EXCEPT ![s] =
                        IF cmd[s].key \in DOMAIN lastWrite
                        THEN Some(lastWrite[cmd[s].key]) ELSE None]
    /\ guard' = guard
    /\ response' = [response EXCEPT ![s] = Some(OK)]
    /\ cmd' = [cmd EXCEPT ![s] = NoCommand]
    /\ pc' = [pc EXCEPT ![s] = "write"]
    /\ UNCHANGED <<poisoned, now, wire, exit, pending, request, seen>>
    /\ UNCHANGED <<call, ret>>

\* the second part, the expiry; then the guard drops and the reply is OK
InsertExpiry(s) ==
    /\ pc[s] = "insert"
    /\ store' = HashMapInsert(store, cmd[s].key,
                    Entry(store[cmd[s].key].value, NewEntry(cmd[s], now).exp))
    /\ lastWrite' = Recorded(lastWrite, cmd[s].key,
                             [value |-> cmd[s].value,
                              exp |-> IF cmd[s].c = "SetTimeout"
                                      THEN Some([timeout |-> cmd[s].timeout,
                                                 inserted_at |-> now])
                                      ELSE None])
    /\ replaced' = [replaced EXCEPT ![s] =
                        IF cmd[s].key \in DOMAIN lastWrite
                        THEN Some(lastWrite[cmd[s].key]) ELSE None]
    /\ guard' = None
    /\ response' = [response EXCEPT ![s] = Some(OK)]
    /\ cmd' = [cmd EXCEPT ![s] = NoCommand]
    /\ pc' = [pc EXCEPT ![s] = "write"]
    /\ UNCHANGED <<poisoned, now, wire, exit, pending, request, seen>>
    /\ UNCHANGED <<call, ret>>

\* the reply of handle_connection to what handle_command(Get) returned
GetReply(found) == IF found = None THEN NeverSetReply ELSE found[1]

\* a Get that removes the entry it finds expired
GetValue_evict(s) ==
    /\ pc[s] = "access"
    /\ cmd[s].c = "Get"
    /\ LET r == handle_command_get(store, cmd[s].key, now)
       IN  IF r.k = "Ok"
           THEN /\ response' = [response EXCEPT ![s] = Some(GetReply(r.v))]
                /\ pc' = [pc EXCEPT ![s] = "write"]
                /\ seen' = [seen EXCEPT ![s] =
                                Some([key |-> cmd[s].key,
                                      w |-> IF cmd[s].key \in DOMAIN lastWrite
                                            THEN Some(lastWrite[cmd[s].key])
                                            ELSE None,
                                      at |-> now,
                                      got |-> r.v])]
                /\ UNCHANGED <<poisoned, exit>>
           ELSE /\ poisoned' = TRUE
                /\ pc' = TaskEnds(s)
                /\ exit' = [exit EXCEPT ![s] = "panic"]
                /\ UNCHANGED <<response, seen>>
    /\ guard' = None
    /\ cmd' = [cmd EXCEPT ![s] = NoCommand]
    /\ store' = IF handle_command_get(store, cmd[s].key, now) = Ok(Some(ExpiredValue))
                THEN [x \in DOMAIN store \ {cmd[s].key} |-> store[x]]
                ELSE store
    /\ UNCHANGED <<now, wire, pending, request, replaced, lastWrite>>
    /\ UNCHANGED <<call, ret>>

\* the Get arm of handle_command and the reply made of its result
GetValue(s) ==
    /\ pc[s] = "access"
    /\ cmd[s].c = "Get"
    /\ LET r == handle_command_get(store, cmd[s].key, now)
       IN  IF r.k = "Ok"
           THEN /\ response' = [response EXCEPT ![s] = Some(GetReply(r.v))]
                /\ pc' = [pc EXCEPT ![s] = "write"]
                /\ seen' = [seen EXCEPT ![s] =
                                Some([key |-> cmd[s].key,
                                      w |-> IF cmd[s].key \in DOMAIN lastWrite
                                            THEN Some(lastWrite[cmd[s].key])
                                            ELSE None,
                                      at |-> now,
                                      got |-> r.v])]
                /\ UNCHANGED <<poisoned, exit>>
           ELSE /\ poisoned' = TRUE
                /\ pc' = TaskEnds(s)
                /\ exit' = [exit EXCEPT ![s] = "panic"]
                /\ UNCHANGED <<response, seen>>
    /\ guard' = None
    /\ cmd' = [cmd EXCEPT ![s] = NoCommand]
    /\ UNCHANGED <<store, now, wire, pending, request, replaced, lastWrite>>
    /\ UNCHANGED <<call, ret>>

\* handler.write_value(response).await.unwrap()
WriteValue(s) ==
    /\ pc[s] = "write"
    /\ LET bytes == serialize(response[s][1])
       IN  IF bytes.k = "Ok"
           THEN /\ wire' = [wire EXCEPT ![s] = bytes.v]
                /\ pc' = [pc EXCEPT ![s] = "read"]
                /\ pending' = [pending EXCEPT ![s] = IF @ > 0 THEN @ - 1 ELSE 0]
                /\ request' = [request EXCEPT ![s] = None]
                /\ UNCHANGED exit
           ELSE /\ pc' = TaskEnds(s)
                /\ exit' = [exit EXCEPT ![s] = "panic"]
                /\ UNCHANGED <<wire, pending, request>>
    /\ response' = [response EXCEPT ![s] = None]
    /\ seen' = [seen EXCEPT ![s] = None]
    /\ replaced' = [replaced EXCEPT ![s] = None]
    /\ UNCHANGED <<store, guard, poisoned, now, cmd, lastWrite>>
    /\ UNCHANGED <<call, ret>>

\* a millisecond passes
Tick ==
    /\ now < MaxTime
    /\ now' = now + 1
    /\ UNCHANGED <<store, guard, poisoned, pc, cmd, response, wire, exit, pending,
                   request, seen, replaced, lastWrite>>
    /\ UNCHANGED <<call, ret>>

Next ==
    \/ \E s \in Sessions : Accept(s)
    \/ \E s \in Sessions, bytes \in Reads : ReadValue(s, bytes)
    \/ \E s \in Sessions : Lock(s)
    \/ \E s \in Sessions : InsertValue(s)
    \/ \E s \in Sessions : InsertExpiry(s)
    \/ \E s \in Sessions : GetValue(s)
    \/ \E s \in Sessions : WriteValue(s)
    \/ Tick

Spec == Init /\ [][Next]_vars

\* Scheduling.  Between taking the guard and dropping it a task runs
\* synchronous code with no await, so a running task completes its map
\* access; and a task blocked in lock() is woken when the guard drops, which
\* under a fair scheduler means it is not passed over for ever.
Fairness ==
    \A s \in Sessions :
        /\ WF_vars(InsertValue(s))
        /\ WF_vars(InsertExpiry(s))
        /\ WF_vars(GetValue(s))
        /\ SF_vars(Lock(s))

FairSpec == Spec /\ Fairness

\* ------------------------------------------------- the functions on their own
\* The codec and the translator are pure: each is called here on every
\* argument of a bounded set, the server idle.
Texts == { <<>>, Minus1, EAcute, <<"h", "e", "y">>, <<"0">> }
RoundTripValues ==
    {SimpleString(t) : t \in Texts} \cup {BulkString(t) : t \in Texts}

\* lines given to parse_int_with_sign: signs, digits, other bytes, and
\* magnitudes at and past the ends of i64 and u64
IntLines ==
    { <<>>, <<"0">>, <<"5">>, <<"0", "0", "7">>, <<"+", "1", "2", "3">>,
      <<"-", "4", "5">>, <<"-", "0">>, <<"+">>, <<"-">>,
      <<"+", "+", "5">>, <<"-", "+", "5">>, <<"+", "-", "5">>, <<"-", "-", "5">>,
      <<"1", "a">>, <<"a">>, <<"5", "+">>, <<" ", "5">>, <<"0xFF">>, EAcute,
      I64MaxDigits, <<"+">> \o I64MaxDigits, <<"-">> \o I64MaxDigits,
      I64MinDigits, <<"-">> \o I64MinDigits,
      U64MaxDigits, <<"-">> \o U64MaxDigits,
      TwoTo64Digits, <<"-">> \o TwoTo64Digits }

\* buffers given to parse_message.  Arrays of bulk strings: none, one or
\* two elements, each with its length in bytes, then whatever follows
Payloads == { <<>>, <<"a">>, EAcute, CRLF, W_PING }
BulkArrays ==
    { Request(<<>>) } \cup { Request(<<p>>) : p \in Payloads }
        \cup { Request(<<p, q>>) : p \in Payloads, q \in Payloads }
\* an element that is the null bulk string, and one whose bytes are no text
NullElementArray == <<"*", "1">> \o CRLF \o <<"$", "-", "1">> \o CRLF
BinaryElementArray == <<"*", "1">> \o CRLF \o WireBulk(<<"0xFF">>)
Trailers == { <<>>, <<"x">>, CRLF, PingRequest }
ArrayBuffers ==
    { a \o t : a \in BulkArrays \cup {NullElementArray, BinaryElementArray},
               t \in Trailers }

\* buffers that are no well-formed value, by what is wrong with them
BadTypeBuffers == { <<"!", "x">> \o CRLF, <<"-", "E">> \o CRLF, <<"x">> }
NoCrlfBuffers ==
    { <<"+", "O", "K">>, <<"+", "O", "K", "\r">>, <<"$", "4">>, <<"*", "1">>,
      <<"$", "4">> \o CRLF \o W_PING,
      <<"$", "4">> \o CRLF \o W_PING \o <<"x", "x">>,
      MissingCrlfRead }
BadLengthBuffers ==
    { <<"$", "a">> \o CRLF \o <<"a">> \o CRLF, <<"$">> \o CRLF,
      <<"*", "x">> \o CRLF, <<"*">> \o CRLF,
      <<"$", "1", ".", "0">> \o CRLF \o <<"a">> \o CRLF }
ShortBuffers ==
    { <<"$", "5">> \o CRLF \o <<"a", "b">>,
      <<"$">> \o I64MaxDigits \o CRLF \o <<"a">> \o CRLF,
      <<"*", "2">> \o CRLF \o WireBulk(<<"a">>),
      <<"*", "1">> \o CRLF,
      <<"*">> \o I64MaxDigits \o CRLF \o WireBulk(<<"a">>) }
NestedBadBuffers ==
    { <<"*", "2">> \o CRLF \o WireBulk(<<"a">>) \o <<"!", "x">> \o CRLF,
      <<"*", "2">> \o CRLF \o WireBulk(<<"a">>) \o <<"$", "x">> \o CRLF,
      <<"*", "1">> \o CRLF \o <<"*", "1">> \o CRLF \o <<"+", "O", "K">>,
      <<"*", "2">> \o CRLF \o <<"+", "O", "K">> \o CRLF \o <<"?">> }
MalformedBuffers ==
    BadTypeBuffers \cup NoCrlfBuffers \cup BadLengthBuffers \cup ShortBuffers
        \cup NestedBadBuffers
\* well-formed values led by each of the four type bytes
TypedBuffers ==
    { <<"+", "O", "K">> \o CRLF, <<":", "5">> \o CRLF, <<":", "-", "5">> \o CRLF,
      WireBulk(<<"a">>), Request(<<<<"a">>>>),
      <<"*", "1">> \o CRLF \o <<":", "5">> \o CRLF }
ParseBuffers == ArrayBuffers \cup MalformedBuffers \cup TypedBuffers

\* values given to extract_command
CommandValues ==
    { SimpleString(W_PING), BulkString(W_PING), Integer(I64(1)),
      Array(<<>>),
      Array(<<BulkString(W_PING)>>),
      Array(<<BulkString(W_SET), BulkString(k), BulkString(v)>>),
      Array(<<BulkString(<<>>), SimpleString(k)>>),
      Array(<<BulkString(W_ECHO), Array(<<BulkString(k)>>), Integer(I64(1))>>),
      Array(<<SimpleString(W_PING)>>),
      Array(<<SimpleString(W_GET), BulkString(k)>>),
      Array(<<Integer(I64(1))>>),
      Array(<<Array(<<BulkString(W_PING)>>)>>),
      Array(<<Array(<<>>), BulkString(W_PING)>>) }

\* what to_command is given for SET: the name in some letter case and 0 to
\* 5 arguments, the third and fourth of every kind
SetNames == { W_SET, <<"s", "e", "t">>, <<"S", "e", "T">> }
Options ==
    { BulkString(W_PX), BulkString(<<"p", "x">>), BulkString(<<"P", "x">>),
      BulkString(<<"E", "X">>), BulkString(<<>>), BulkString(<<"p", "x", "x">>),
      SimpleString(<<"p", "x">>), Integer(I64(1)), Array(<<BulkString(W_PX)>>) }
Ttls ==
    { BulkString(<<"1", "0", "0">>), BulkString(<<"+", "5">>), BulkString(<<"-", "1">>),
      BulkString(<<"0">>), BulkString(<<"a", "b", "c">>), BulkString(<<>>),
      BulkString(<<"1", ".", "5">>), BulkString(<<"+", "+", "5">>),
      BulkString(I64MinDigits), BulkString(<<"-">> \o I64MinDigits),
      SimpleString(<<"5">>), Integer(I64(5)), Array(<<>>) }
SetArgs ==
    { <<>>, <<Bk>>, <<Bk, Bv>>, <<Bk, Bv, BulkString(W_PX)>>,
      <<SimpleString(k), Array(<<>>)>>,
      <<Bk, Bv, BulkString(W_PX), BulkString(<<"1">>), Bv>> }
        \cup { <<Bk, Bv, o, t>> : o \in Options, t \in Ttls }

Call(fn, arg) == [fn |-> fn, arg |-> arg]

CallInit ==
    /\ Boot
    /\ ret = <<>>
    /\ \/ \E x \in RoundTripValues : call = Call("serialize", x)
       \/ \E x \in IntLines : call = Call("parse_int_with_sign", x)
       \/ \E x \in ParseBuffers : call = Call("parse_message", x)
       \/ \E x \in CommandValues : call = Call("extract_command", x)
       \/ \E n \in SetNames, a \in SetArgs :
              call = Call("to_command", [command |-> n, args |-> a])

\* value.serialize()
Serialize ==
    /\ call.fn = "serialize"
    /\ ret = <<>>
    /\ ret' = <<serialize(call.arg)>>
    /\ UNCHANGED <<server, call>>

\* parse_message on the bytes serialize returned
ParseBack ==
    /\ call.fn = "serialize"
    /\ Len(ret) = 1
    /\ ret[1].k = "Ok"
    /\ ret' = Append(ret, parse_message(ret[1].v))
    /\ UNCHANGED <<server, call>>

\* parse_int_with_sign(line), in either build
ParseIntWithSign ==
    /\ call.fn = "parse_int_with_sign"
    /\ ret = <<>>
    /\ \E r \in Builds(parse_int_with_sign(call.arg)) : ret' = <<r>>
    /\ UNCHANGED <<server, call>>

\* parse_message(buffer)
ParseMessage ==
    /\ call.fn = "parse_message"
    /\ ret = <<>>
    /\ ret' = <<parse_message(call.arg)>>
    /\ UNCHANGED <<server, call>>

\* extract_command(value)
ExtractCommand ==
    /\ call.fn = "extract_command"
    /\ ret = <<>>
    /\ ret' = <<extract_command(call.arg)>>
    /\ UNCHANGED <<server, call>>

\* to_command((command, args)), in either build
ToCommand ==
    /\ call.fn = "to_command"
    /\ ret = <<>>
    /\ \E r \in Builds(to_command(call.arg.command, call.arg.args)) : ret' = <<r>>
    /\ UNCHANGED <<server, call>>

CallNext ==
    \/ Serialize
    \/ ParseBack
    \/ ParseIntWithSign
    \/ ParseMessage
    \/ ExtractCommand
    \/ ToCommand

CallSpec == CallInit /\ [][CallNext]_vars

\* ================================================================== claims

\* the sessions whose GET has been answered by handle_command
Getters == {s \in Sessions : seen[s] # None}
Saw(s) == seen[s][1]
\* the write that GET met has a timeout t >= 0
MetTtl(s) ==
    /\ Saw(s).w # None
    /\ Saw(s).w[1].exp # None
    /\ ~Negative(Saw(s).w[1].exp[1].timeout.i)
    /\ Small(Saw(s).w[1].exp[1].timeout.i)
\* the t of that write
Ttl(s) == IntOf(Saw(s).w[1].exp[1].timeout.i)
\* milliseconds between that write and the GET
ElapsedMs(s) == Saw(s).at - Saw(s).w[1].exp[1].inserted_at

\* C1: when the last completed write of a key was a SET without TTL, a GET
\* of the key returns exactly the value of that SET, whatever requests on
\* other keys and whatever PING, ECHO, GET and INFO were served in between.
C1_SetThenGet ==
    \A s \in Getters :
        (Saw(s).w # None /\ Saw(s).w[1].exp = None)
            => /\ Saw(s).got = Some(Saw(s).w[1].value)
               /\ response[s] = Some(Saw(s).w[1].value)

\* a GET of k answered with w, the value of the last SET k w, with key j
\* written too and the other session past a request of its own
C1_Witness ==
    \E s \in Getters : \E o \in Sessions \ {s} :
        /\ Saw(s).key = Bk
        /\ Saw(s).w = Some(Entry(Bw, None))
        /\ response[s] = Some(Bw)
        /\ Bj \in DOMAIN store
        /\ wire[o] # <<>>

\* C2: for a key last written by SET k v PX t with t >= 0, a GET at
\* elapsed_ms <= t returns v (so also at elapsed_ms = t) and a GET at
\* elapsed_ms > t returns the miss value and not v.
C2_TtlBoundary ==
    \A s \in Getters :
        MetTtl(s) =>
            IF ElapsedMs(s) <= Ttl(s)
            THEN response[s] = Some(Saw(s).w[1].value)
            ELSE /\ response[s] = Some(ExpiredValue)
                 /\ response[s] # Some(Saw(s).w[1].value)

\* one GET served at exactly elapsed_ms = t got v, another after it got the miss
C2_Witness ==
    \E s \in Getters : \E o \in Getters \ {s} :
        /\ MetTtl(s) /\ MetTtl(o)
        /\ ElapsedMs(s) = Ttl(s)
        /\ response[s] = Some(Bv)
        /\ ElapsedMs(o) > Ttl(o)
        /\ response[o] = Some(ExpiredValue)

\* the entry a SET command writes, told from the command alone
WrittenBy(c, t) ==
    [value |-> c.value,
     exp |-> IF c.c = "SetTimeout"
             THEN Some([timeout |-> c.timeout, inserted_at |-> t]) ELSE None]

\* C3: a SET on an existing key replaces the value and the TTL state: the
\* entry after it is the one its own command gives, with the expiry counted
\* from this write, and a GET is answered from the last completed write
\* alone, a SET without TTL giving its value however long ago an earlier
\* SET .. PX was made.
C3_ReSetReplaces ==
    /\ [][\A s \in Sessions :
            InsertExpiry(s) => store'[cmd[s].key] = WrittenBy(cmd[s], now)]_vars
    /\ [](\A s \in Getters :
            /\ (Saw(s).w # None /\ Saw(s).w[1].exp = None)
                   => response[s] = Some(Saw(s).w[1].value)
            /\ MetTtl(s)
                   => response[s] =
                        IF ElapsedMs(s) > Ttl(s)
                        THEN Some(ExpiredValue) ELSE Some(Saw(s).w[1].value))

\* SET k w replaced an entry written with PX 1, and a GET made more than
\* 1 ms after that older write is answered w
C3_Witness ==
    \E s \in Sessions : \E o \in Getters \ {s} :
        /\ request[s] = Some(Request(<<W_SET, k, w>>))
        /\ replaced[s] # None
        /\ replaced[s][1].exp # None
        /\ replaced[s][1].exp[1].timeout = Integer(I64(1))
        /\ Saw(o).key = Bk
        /\ Saw(o).w = Some(Entry(Bw, None))
        /\ Saw(o).at - replaced[s][1].exp[1].inserted_at > 1
        /\ response[o] = Some(Bw)

\* expired iff elapsed_ms > ttl_ms, the TTL being a signed integer
HasExpired(entry, t) ==
    /\ entry.exp # None
    /\ \/ Negative(entry.exp[1].timeout.i)
       \/ /\ Small(entry.exp[1].timeout.i)
          /\ t - entry.exp[1].inserted_at > IntOf(entry.exp[1].timeout.i)

\* C4: get returns None exactly when the key was never set, the BulkString
\* "-1" exactly when the key is present and its entry has expired, and the
\* stored value otherwise; a never-set key is answered +-1 on the wire and
\* an expired one with the null bulk string.
C4_MissKinds ==
    \A s \in Getters :
        /\ Saw(s).got = None <=> Saw(s).w = None
        /\ Saw(s).got = Some(ExpiredValue)
              <=> (Saw(s).w # None /\ HasExpired(Saw(s).w[1], Saw(s).at))
        /\ (Saw(s).w # None /\ ~HasExpired(Saw(s).w[1], Saw(s).at))
              => Saw(s).got = Some(Saw(s).w[1].value)
        /\ Saw(s).w = None
              => serialize(response[s][1]) = Ok(<<"+", "-", "1">> \o CRLF)
        /\ (Saw(s).w # None /\ HasExpired(Saw(s).w[1], Saw(s).at))
              => serialize(response[s][1]) = Ok(<<"$", "-", "1">> \o CRLF)

\* C5: with two sessions interleaved, no completed SET is lost: whenever
\* no session is inside the map the map holds, for every key, the entry of
\* the last completed SET of that key; and a GET returns a miss or the
\* value of one SET, expired or not by that same SET's expiry, never the
\* value of one write with the expiry of another.
C5_NoLostNoTornWrite ==
    /\ guard = None => store = lastWrite
    /\ \A s \in Getters :
          IF Saw(s).w = None THEN Saw(s).got = None
          ELSE \/ Saw(s).got = Some(Saw(s).w[1].value)
               \/ /\ Saw(s).got = Some(ExpiredValue)
                  /\ Saw(s).w[1].exp # None

\* two sessions have each completed a SET, on k and on j, before either
\* has replied, and the map holds both
C5_Witness ==
    \E s \in Sessions : \E o \in Sessions \ {s} :
        /\ pc[s] = "write" /\ request[s] = Some(Request(<<W_SET, k, v>>))
        /\ pc[o] = "write" /\ request[o] = Some(Request(<<W_SET, j, Minus1>>))
        /\ Bk \in DOMAIN store /\ store[Bk] = Entry(Bv, None)
        /\ Bj \in DOMAIN store /\ store[Bj] = Entry(BulkString(Minus1), None)

\* the other sessions are where they were and the Mutex can still be taken
OthersUntouched(s) ==
    /\ \A o \in Sessions \ {s} : pc'[o] = pc[o]
    /\ poisoned' = poisoned
    /\ guard' = guard

\* C6: every complete request of a connection's byte stream gets its reply,
\* in order, also when several arrive in one read: a session that waits for
\* the next read has replied to every complete request of the last one.
C6_EveryRequestAnswered ==
    \A s \in Sessions : pc[s] = "read" => pending[s] = 0

\* C7: a request that parses and is invalid at the request level (arity,
\* SET option, command name, TTL that is no integer) is answered with a
\* reply, the store unchanged and the connection left open, the other
\* sessions untouched.
C7_InvalidRequestKeepsConnection ==
    [][\A s \in Sessions : \A b \in InvalidRequests :
            ReadValue(s, b) =>
                /\ pc'[s] = "write"
                /\ store' = store
                /\ OthersUntouched(s)]_vars

\* C8: a read of bytes that are no well-formed RESP value closes the
\* connection with no reply written and the store unchanged, the other
\* sessions untouched.
C8_MalformedClosesSilently ==
    [][\A s \in Sessions : \A b \in Reads :
            (ReadValue(s, b) /\ b # <<>> /\ ~WellFormed(b)) =>
                /\ pc'[s] = "closed"
                /\ response'[s] = None
                /\ wire'[s] = <<>>
                /\ store' = store
                /\ OthersUntouched(s)]_vars

\* C9: PING is answered +PONG\r\n and ECHO m is answered
\* $<byte length of m>\r\n<m>\r\n for every bulk string m; neither changes
\* the store.
C9_PingEchoReplies ==
    [][\A s \in Sessions :
            /\ \A b \in {PingRequest} \cup {EchoRequest(m) : m \in EchoTexts} :
                  ReadValue(s, b) => (pc'[s] = "write" /\ store' = store)
            /\ (WriteValue(s) /\ request[s] = Some(PingRequest))
                  => (wire'[s] = <<"+", "P", "O", "N", "G">> \o CRLF /\ store' = store)
            /\ \A m \in EchoTexts :
                  (WriteValue(s) /\ request[s] = Some(EchoRequest(m)))
                      => (wire'[s] = WireBulk(m) /\ store' = store)]_vars

\* C10: INFO replication, in any letter case, is answered with the
\* BulkString role:master; INFO with another section changes neither the
\* store nor any other session, and leaves the Mutex free to take.
C10_InfoReplies ==
    [][\A s \in Sessions :
            /\ \A b \in InfoReplicationRequests :
                  ReadValue(s, b) =>
                      (pc'[s] = "write" /\ response'[s] = Some(RoleMaster))
            /\ (WriteValue(s) /\ request[s] # None
                    /\ request[s][1] \in InfoReplicationRequests)
                  => wire'[s] = WireBulk(RoleMaster.s)
            /\ \A b \in InfoOtherRequests :
                  ReadValue(s, b) => (store' = store /\ OthersUntouched(s))]_vars

\* INFO server ended one session while the other, still open, has its
\* INFO REPLICATION answered role:master on the wire
C10_Witness ==
    \E s \in Sessions : \E o \in Sessions \ {s} :
        /\ pc[s] = "closed" /\ exit[s] = "panic"
        /\ request[s] # None /\ request[s][1] \in InfoOtherRequests
        /\ pc[o] = "read"
        /\ wire[o] = WireBulk(RoleMaster.s)

\* C11: for every SimpleString and BulkString v, the empty text, "-1" and
\* a multi-byte character among the texts, parsing serialize(v) returns v
\* and consumes every byte of serialize(v).
C11_RoundTrip ==
    (call # None /\ call.fn = "serialize" /\ Len(ret) >= 1) =>
        /\ ret[1].k = "Ok"
        /\ Len(ret) = 2 => ret[2] = OkN(call.arg, Len(ret[1].v))

\* what a line denotes: an optional sign, one or more digits, a value of i64
SignedDecimal(line) ==
    IF line = <<>> THEN Err
    ELSE LET neg == line[1] = "-"
             body == IF line[1] \in {"+", "-"} THEN Tail(line) ELSE line
         IN  IF body = <<>> \/ ~AllDigits(body) THEN Err
             ELSE IF ~FitsBelow(body, IF neg THEN I64MinDigits ELSE I64MaxDigits)
             THEN Err
             ELSE Ok(I64Of(neg, body))

\* C12: parse_int_with_sign returns the signed value of a line made of an
\* optional single sign and one or more digits, and an error for the empty
\* line, for any other content after the sign (a second sign too) and for a
\* magnitude that does not fit i64, never a wrapped value and never a panic.
C12_SignedDecimalOnly ==
    (call # None /\ call.fn = "parse_int_with_sign" /\ ret # <<>>) =>
        ret[1] = SignedDecimal(call.arg)

\* the buffers parse_message has returned from
Parsed(buffers) ==
    call # None /\ call.fn = "parse_message" /\ ret # <<>> /\ call.arg \in buffers
\* the count an array header declares
DeclaredCount(buffer) == DecValue(read_until_crlf(Tail(buffer))[1].line)

\* C13: on a buffer that starts with a valid array of bulk strings, parse
\* returns an Array of as many children as the header declares and a
\* consumed count that is the length in bytes of the array's encoding,
\* whatever follows the array in the buffer.
C13_ArrayConsumedExactly ==
    Parsed(ArrayBuffers) =>
        /\ ret[1].k = "Ok"
        /\ ret[1].v.t = "Array"
        /\ Len(ret[1].v.a) = DeclaredCount(call.arg)
        /\ ret[1].n = FrameLen(call.arg)

\* the same of the arrays whose elements have a length of 0 or more and
\* text for payload
C13_TextArraysConsumedExactly ==
    Parsed({a \o t : a \in BulkArrays, t \in Trailers}) =>
        /\ ret[1].k = "Ok"
        /\ ret[1].v.t = "Array"
        /\ Len(ret[1].v.a) = DeclaredCount(call.arg)
        /\ ret[1].n = FrameLen(call.arg)
        /\ \A i \in 1..Len(ret[1].v.a) : ret[1].v.a[i].t = "BulkString"

\* C14: parse returns an error, no value and no panic, on a buffer whose
\* type byte is none of + * $ :, that lacks a required CRLF (the one after
\* a bulk payload too), whose declared length is no integer, or that ends
\* before the declared length or count is met, in a nested element as at
\* the top; and it does not reject a well-formed frame for its type byte.
C14_MalformedIsAnError ==
    /\ Parsed(MalformedBuffers) => ret[1] = Err
    /\ Parsed(TypedBuffers) => ret[1].k = "Ok"

\* C15: GET never modifies the store, on a hit, a miss or an expired
\* entry, which stays in the map with its value and expiry; the map changes
\* in the steps of a SET alone, no step removes a key, and every key has
\* one entry, a value and an expiry state.
C15_GetLeavesStore ==
    /\ [][/\ \A s \in Sessions : GetValue(s) => store' = store
          /\ store' # store => \E s \in Sessions : InsertValue(s) \/ InsertExpiry(s)
          /\ DOMAIN store \subseteq DOMAIN store']_vars
    /\ [](\A key \in DOMAIN store : DOMAIN store[key] = {"value", "exp"})

\* a GET of k found its entry expired and answered the miss, and the entry
\* is in the map as it was written; the other session has had a miss on a
\* key never set
C15_Witness ==
    \E s \in Getters : \E o \in Getters \ {s} :
        /\ MetTtl(s)
        /\ ElapsedMs(s) > Ttl(s)
        /\ Saw(s).got = Some(ExpiredValue)
        /\ Saw(s).key \in DOMAIN store
        /\ store[Saw(s).key] = Saw(s).w[1]
        /\ Saw(o).got = None
        /\ Saw(o).key \notin DOMAIN store

\* the sessions inside handle_command with the map in hand
InMap == {s \in Sessions : pc[s] \in {"access", "insert"}}

C17_ExtractCommand ==
    (call # None /\ call.fn = "extract_command" /\ ret # <<>>) =>
        IF call.arg.t = "Array" /\ call.arg.a # <<>>
        THEN IF call.arg.a[1].t = "BulkString"
             THEN ret[1] = Ok([command |-> call.arg.a[1].s, args |-> Tail(call.arg.a)])
             ELSE ret[1] = Err
        ELSE ret[1] = Err

\* C18: to_command for SET, in any letter case: an error with fewer than 2
\* args; with 4 args SetTimeout(arg0, arg1, ttl), ttl being arg[3] parsed as
\* a signed integer, when arg[2] is the BulkString px in any letter case; an
\* error when arg[2] is anything else, BulkString or not, and when arg[3]
\* is no signed decimal; every error a returned value, never a panic, and
\* the store as it was.
C18_SetTranslation ==
    (call # None /\ call.fn = "to_command" /\ ret # <<>>) =>
        LET args == call.arg.args
        IN  /\ Len(args) < 2 => ret[1] = Err
            /\ Len(args) = 4 =>
                  IF args[3].t = "BulkString" /\ ToLowercase(args[3].s) = <<"p", "x">>
                  THEN IF args[4].t = "BulkString" /\ SignedDecimal(args[4].s).k = "Ok"
                       THEN ret[1] = Ok(SetTimeout(args[1], args[2],
                                            Integer(SignedDecimal(args[4].s).v)))
                       ELSE ret[1] = Err
                  ELSE ret[1] = Err
            /\ store = EmptyMap

\* the replies the server makes of its own
OwnReplies == {PONG, OK, NeverSetReply, ExpiredValue, RoleMaster}

\* C19: every value a session hands to serialize as a reply is a
\* SimpleString or a BulkString, never an Integer or an Array, so that
\* serialize returns; and no reply is a SimpleString or an Array that a
\* client sent as an argument, a key or a value.
C19_RepliesAreStrings ==
    \A s \in Sessions :
        pc[s] = "write" =>
            /\ response[s][1].t \in {"SimpleString", "BulkString"}
            /\ serialize(response[s][1]).k = "Ok"
            /\ response[s][1].t = "SimpleString" => response[s][1] \in OwnReplies

\* C20: the rule 'expired iff elapsed_ms > ttl_ms' holds of the TTL as a
\* signed integer: a GET that meets a last write SET k v PX t with t < 0 is
\* answered the miss, at whatever time, and never v.
C20_NegativeTtlExpired ==
    \A s \in Getters :
        (/\ Saw(s).w # None
         /\ Saw(s).w[1].exp # None
         /\ Negative(Saw(s).w[1].exp[1].timeout.i))
            => /\ Saw(s).got = Some(ExpiredValue)
               /\ response[s] = Some(ExpiredValue)
               /\ response[s] # Some(Saw(s).w[1].value)

====
